---------------------------- MODULE Spec2Model ----------------------------
(***************************************************************************)
(* A model of dct2, a minimal Bolt v4 client:                              *)
(*   - the PackStream codec      (messaging.py, SimplePacker/SimpleUnpacker)*)
(*   - the chunked message layer (messaging.py, MessageWriter/MessageReader)*)
(*   - the session engine        (__init__.py, Bolt/BoltResult/BoltResponse)*)
(* Bytes are the integers 0..255 and every buffer is a sequence of bytes.  *)
(* A raised Python exception is the name of its class in a field "err";    *)
(* the empty string means that nothing was raised.                         *)
(***************************************************************************)
EXTENDS Integers, Sequences, FiniteSets, TLC

(***************************************************************************)
(* Python integers.  TLC's integers are 32 bits wide, the packer decides   *)
(* on 64-bit ranges, so an integer is kept as three limbs <<a, b, c>> that *)
(* stand for a * 2^48 + b * 2^24 + c with b and c in 0 .. 2^24 - 1.        *)
(***************************************************************************)
Limb == 4096 * 4096

IntOf(n) ==
    IF n >= 0 THEN <<0, n \div Limb, n % Limb>>
    ELSE <<-1, Limb - 1 - ((-n - 1) \div Limb), Limb - 1 - ((-n - 1) % Limb)>>

IntLT(x, y) ==
    \/ x[1] < y[1]
    \/ x[1] = y[1] /\ x[2] < y[2]
    \/ x[1] = y[1] /\ x[2] = y[2] /\ x[3] < y[3]

IntLE(x, y) == x = y \/ IntLT(x, y)

\* The low 31 bits hold every integer the model turns back into a TLC number.
SmallOf(x) == IF x[1] = 0 THEN x[2] * Limb + x[3]
              ELSE -((Limb - 1 - x[2]) * Limb + (Limb - 1 - x[3])) - 1

Pow31 == <<0, 128, 0>>
NegPow31 == <<-1, Limb - 128, 0>>
Pow63 == <<32768, 0, 0>>
NegPow63 == <<-32768, 0, 0>>

(***************************************************************************)
(* Values.  Every value is a record [t, v] whose v is a sequence:          *)
(*   None  [t |-> "null",  v |-> <<>>]                                     *)
(*   int   [t |-> "int",   v |-> <<a, b, c>>]                              *)
(*   str   [t |-> "str",   v |-> the code points]                          *)
(*   list  [t |-> "list",  v |-> the items]                                *)
(*   dict  [t |-> "dict",  v |-> the <<key, value>> pairs, insertion order]*)
(*   bool  [t |-> "bool",  v |-> the limbs of 0 or 1]                      *)
(*   float, bytes: [t |-> "float"], [t |-> "bytes"], v |-> <<>>            *)
(***************************************************************************)
VNull == [t |-> "null", v |-> <<>>]
VInt(n) == [t |-> "int", v |-> IntOf(n)]
VBig(x) == [t |-> "int", v |-> x]
VStr(cps) == [t |-> "str", v |-> cps]
VList(items) == [t |-> "list", v |-> items]
VDict(pairs) == [t |-> "dict", v |-> pairs]
VFloat == [t |-> "float", v |-> <<>>]
VBool(b) == [t |-> "bool", v |-> IntOf(b)]
VBytes == [t |-> "bytes", v |-> <<>>]

\* what a call of the packer did: the exception it raised and the bytes it
\* wrote to the buffer
Raise(e) == [err |-> e, bytes |-> <<>>]
Bytes(bs) == [err |-> "", bytes |-> bs]

(***************************************************************************)
(* struct.pack / struct.unpack, big-endian.                                *)
(***************************************************************************)
U8(n) == <<n % 256>>
U16be(n) == <<(n \div 256) % 256, n % 256>>
U24be(n) == <<(n \div 65536) % 256, (n \div 256) % 256, n % 256>>
\* struct.pack(">I") of a size kept in limbs, below 2^32
U32be(x) == U8(x[2]) \o U24be(x[3])

\* struct.pack(">b"), (">h"), (">i"), (">q") of an integer in the format's range
I8(x) == U8(x[3])
I16be(x) == U16be(x[3])
I32be(x) == U8(x[2]) \o U24be(x[3])
I64be(x) == U16be(x[1] % 65536) \o U24be(x[2]) \o U24be(x[3])

RdU16(bs) == bs[1] * 256 + bs[2]
RdU24(bs) == bs[1] * 65536 + bs[2] * 256 + bs[3]
\* a 32-bit size of 2^31 or more is kept as 2^31 - 1: no buffer is that long
RdU32(bs) == IF bs[1] >= 128 THEN 2147483647 ELSE bs[1] * Limb + RdU24(SubSeq(bs, 2, 4))

RdI8(bs) == IntOf(IF bs[1] >= 128 THEN bs[1] - 256 ELSE bs[1])
RdI16(bs) == IntOf(IF bs[1] >= 128 THEN RdU16(bs) - 65536 ELSE RdU16(bs))
RdI32(bs) == IF bs[1] >= 128 THEN <<-1, Limb - 256 + bs[1], RdU24(SubSeq(bs, 2, 4))>>
             ELSE <<0, bs[1], RdU24(SubSeq(bs, 2, 4))>>
RdI64(bs) == <<IF bs[1] >= 128 THEN RdU16(bs) - 65536 ELSE RdU16(bs),
               RdU24(SubSeq(bs, 3, 5)), RdU24(SubSeq(bs, 6, 8))>>

(***************************************************************************)
(* str.encode("utf-8") and bytes.decode("utf-8"), strict.                  *)
(***************************************************************************)
EncodeCp(cp) ==
    IF cp < 128 THEN <<cp>>
    ELSE IF cp < 2048 THEN <<192 + (cp \div 64), 128 + (cp % 64)>>
    ELSE IF cp < 65536
         THEN <<224 + (cp \div 4096), 128 + ((cp \div 64) % 64), 128 + (cp % 64)>>
    ELSE <<240 + (cp \div 262144), 128 + ((cp \div 4096) % 64),
           128 + ((cp \div 64) % 64), 128 + (cp % 64)>>

IsSurrogate(cp) == 55296 <= cp /\ cp <= 57343

RECURSIVE EncodeSpan(_, _, _)
EncodeSpan(cps, lo, hi) ==
    IF lo > hi THEN <<>>
    ELSE IF lo = hi THEN EncodeCp(cps[lo])
    ELSE LET mid == (lo + hi) \div 2
         IN  EncodeSpan(cps, lo, mid) \o EncodeSpan(cps, mid + 1, hi)

\* (an all-ASCII string is its own encoding: the first branch only saves time)
Utf8Encode(cps) ==
    IF \A i \in 1..Len(cps) : cps[i] < 128 THEN Bytes(cps)
    ELSE IF \E i \in 1..Len(cps) : IsSurrogate(cps[i]) THEN Raise("UnicodeEncodeError")
    ELSE Bytes(EncodeSpan(cps, 1, Len(cps)))

IsCont(b) == 128 <= b /\ b <= 191

\* the length of the sequence a lead byte opens, 0 for a byte that opens none
LeadLen(b) ==
    IF b < 128 THEN 1
    ELSE IF 194 <= b /\ b <= 223 THEN 2
    ELSE IF 224 <= b /\ b <= 239 THEN 3
    ELSE IF 240 <= b /\ b <= 244 THEN 4
    ELSE 0

\* the range of the second byte: no overlong form, no surrogate, at most U+10FFFF
SecondOk(lead, b) ==
    CASE lead = 224 -> 160 <= b /\ b <= 191
      [] lead = 237 -> 128 <= b /\ b <= 159
      [] lead = 240 -> 144 <= b /\ b <= 191
      [] lead = 244 -> 128 <= b /\ b <= 143
      [] OTHER -> TRUE

DecodeAt(bs, i) ==
    LET n == LeadLen(bs[i])
    IN  CASE n = 1 -> bs[i]
          [] n = 2 -> (bs[i] - 192) * 64 + (bs[i + 1] - 128)
          [] n = 3 -> (bs[i] - 224) * 4096 + (bs[i + 1] - 128) * 64 + (bs[i + 2] - 128)
          [] OTHER -> (bs[i] - 240) * 262144 + (bs[i + 1] - 128) * 4096
                      + (bs[i + 2] - 128) * 64 + (bs[i + 3] - 128)

Utf8Decode(bs) ==
    LET n == Len(bs)
        starts == SelectSeq([i \in 1..n |-> i], LAMBDA i : ~IsCont(bs[i]))
        m == Len(starts)
        wellFormed ==
            /\ n > 0 => (m > 0 /\ starts[1] = 1)
            /\ \A k \in 1..m :
                 LET i == starts[k]
                     nxt == IF k < m THEN starts[k + 1] ELSE n + 1
                 IN  /\ LeadLen(bs[i]) = nxt - i
                     /\ nxt - i > 1 => SecondOk(bs[i], bs[i + 1])
    IN  IF \A i \in 1..n : bs[i] < 128 THEN [err |-> "", cps |-> bs]
        ELSE IF wellFormed
        THEN [err |-> "", cps |-> [k \in 1..m |-> DecodeAt(bs, starts[k])]]
        ELSE [err |-> "UnicodeDecodeError", cps |-> <<>>]

(***************************************************************************)
(* SimplePacker.  Pack(obj) is the bytes pack(obj) writes to the packer's  *)
(* buffer and the exception it raises, if any.                             *)
(***************************************************************************)
\* a _pack_int without the 8-bit branch: -128 .. -17 go out in 16 bits
PackIntWide(x) ==
    IF IntLE(IntOf(-16), x) /\ IntLT(x, IntOf(128)) THEN Bytes(I8(x))
    ELSE IF IntLE(IntOf(-32768), x) /\ IntLT(x, IntOf(32768))
         THEN Bytes(<<201>> \o I16be(x))
    ELSE IF IntLE(NegPow31, x) /\ IntLT(x, Pow31) THEN Bytes(<<202>> \o I32be(x))
    ELSE IF IntLE(NegPow63, x) /\ IntLT(x, Pow63) THEN Bytes(<<203>> \o I64be(x))
    ELSE Raise("OverflowError")

PackInt(x) ==
    IF IntLE(IntOf(-16), x) /\ IntLT(x, IntOf(128)) THEN Bytes(I8(x))
    ELSE IF IntLE(IntOf(-128), x) /\ IntLT(x, IntOf(-16)) THEN Bytes(<<200>> \o I8(x))
    ELSE IF IntLE(IntOf(-32768), x) /\ IntLT(x, IntOf(32768))
         THEN Bytes(<<201>> \o I16be(x))
    ELSE IF IntLE(NegPow31, x) /\ IntLT(x, Pow31) THEN Bytes(<<202>> \o I32be(x))
    ELSE IF IntLE(NegPow63, x) /\ IntLT(x, Pow63) THEN Bytes(<<203>> \o I64be(x))
    ELSE Raise("OverflowError")

Pow32 == <<0, 256, 0>>

\* _pack_header of a size kept in limbs: a len() may be 2^32 or more
PackHeaderOf(x, tiny, small, medium, large) ==
    IF IntLT(x, IntOf(16)) THEN Bytes(U8(tiny + SmallOf(x)))
    ELSE IF IntLT(x, IntOf(256)) THEN Bytes(U8(small) \o U8(SmallOf(x)))
    ELSE IF IntLT(x, IntOf(65536)) THEN Bytes(U8(medium) \o U16be(SmallOf(x)))
    ELSE IF IntLT(x, Pow32) THEN Bytes(U8(large) \o U32be(x))
    ELSE Raise("OverflowError")

\* _pack_header of the length of a sequence of the model
PackHeader(size, tiny, small, medium, large) ==
    PackHeaderOf(IntOf(size), tiny, small, medium, large)

\* what two writes in a row leave in the buffer: the first exception raised
\* ends the call, the second write is then never made, and what was written
\* before the exception stays in the buffer
Both(first, second) ==
    IF first.err # "" THEN first
    ELSE [err |-> second.err, bytes |-> first.bytes \o second.bytes]

StrBytes(encoded) ==
    IF encoded.err # "" THEN encoded
    ELSE Bytes(PackHeader(Len(encoded.bytes), 128, 208, 209, 210).bytes \o encoded.bytes)

\* obj.encode("utf-8") of a key that is no str raises AttributeError
PackStr(obj) ==
    IF obj.t # "str" THEN Raise("AttributeError") ELSE StrBytes(Utf8Encode(obj.v))

RECURSIVE Pack(_), PackItems(_, _), PackPairs(_, _)

PackItems(items, i) ==
    IF i > Len(items) THEN Bytes(<<>>)
    ELSE Both(Pack(items[i]), PackItems(items, i + 1))

PackList(obj) ==
    Both(PackHeader(Len(obj.v), 144, 212, 213, 214), PackItems(obj.v, 1))

PackPairs(pairs, i) ==
    IF i > Len(pairs) THEN Bytes(<<>>)
    ELSE Both(PackStr(pairs[i][1]), Both(Pack(pairs[i][2]), PackPairs(pairs, i + 1)))

PackDict(obj) ==
    Both(PackHeader(Len(obj.v), 160, 216, 217, 218), PackPairs(obj.v, 1))

\* isinstance(obj, int) holds of a bool too: bool is a subclass of int
Pack(obj) ==
    IF obj.t = "null" THEN Bytes(<<192>>)
    ELSE IF obj.t \in {"int", "bool"} THEN PackInt(obj.v)
    ELSE IF obj.t = "str" THEN PackStr(obj)
    ELSE IF obj.t = "list" THEN PackList(obj)
    ELSE IF obj.t = "dict" THEN PackDict(obj)
    ELSE Raise("ValueError")

(***************************************************************************)
(* SimpleUnpacker over a buffer buf read from position pos (1-based).      *)
(* Unpack gives [err, val, pos]: val is <<value>> and pos the position     *)
(* after it, or err names the exception.                                   *)
(***************************************************************************)
Min(a, b) == IF a < b THEN a ELSE b

\* BytesIO.read(n): the n next bytes, or as many as are left
Read(buf, pos, n) == SubSeq(buf, pos, Min(Len(buf), pos + n - 1))

Fail(e) == [err |-> e, val |-> <<>>, pos |-> 0]
Got(v, pos) == [err |-> "", val |-> <<v>>, pos |-> pos]

\* a struct.unpack of n bytes: struct.error unless n bytes are left
ReadFixed(buf, pos, n) ==
    LET bs == Read(buf, pos, n)
    IN  IF Len(bs) < n THEN Fail("struct.error") ELSE Got(bs, pos + n)

UnpackString(buf, pos, size) ==
    LET bs == Read(buf, pos, size)
        s == Utf8Decode(bs)
    IN  IF s.err # "" THEN Fail(s.err) ELSE Got(VStr(s.cps), pos + Len(bs))

Hashable(k) == k.t \notin {"list", "dict"}

\* d[k] = v on a dict kept as pairs in insertion order
DictPut(pairs, k, v) ==
    IF \E i \in 1..Len(pairs) : pairs[i][1] = k
    THEN [i \in 1..Len(pairs) |-> IF pairs[i][1] = k THEN <<k, v>> ELSE pairs[i]]
    ELSE Append(pairs, <<k, v>>)

\* The operators below take what a call returned as a parameter (item, key,
\* value, raw) where the code keeps it in a local variable.
RECURSIVE Unpack(_, _), UnpackList(_, _, _, _), UnpackDict(_, _, _, _)

ListItem(buf, size, acc, item) ==
    IF item.err # "" THEN item
    ELSE UnpackList(buf, item.pos, size - 1, Append(acc, item.val[1]))

\* [self.unpack() for _ in range(size)]
UnpackList(buf, pos, size, acc) ==
    IF size = 0 THEN Got(VList(acc), pos)
    ELSE ListItem(buf, size, acc, Unpack(buf, pos))

DictValue(buf, size, acc, key, value) ==
    IF value.err # "" THEN value
    ELSE IF ~Hashable(key.val[1]) THEN Fail("TypeError")
    ELSE UnpackDict(buf, value.pos, size - 1, DictPut(acc, key.val[1], value.val[1]))

DictKey(buf, size, acc, key) ==
    IF key.err # "" THEN key
    ELSE DictValue(buf, size, acc, key, Unpack(buf, key.pos))

\* {self.unpack(): self.unpack() for _ in range(size)}: the key is read first
UnpackDict(buf, pos, size, acc) ==
    IF size = 0 THEN Got(VDict(acc), pos)
    ELSE DictKey(buf, size, acc, Unpack(buf, pos))

FixedInt(width, raw) ==
    IF raw.err # "" THEN raw
    ELSE Got(VBig(CASE width = 1 -> RdI8(raw.val[1])
                    [] width = 2 -> RdI16(raw.val[1])
                    [] width = 4 -> RdI32(raw.val[1])
                    [] OTHER -> RdI64(raw.val[1])), raw.pos)

\* _read_i8, _read_i16be, _read_i32be, _read_i64be
UnpackFixedInt(buf, pos, width) == FixedInt(width, ReadFixed(buf, pos, width))

FixedSize(width, raw) ==
    IF raw.err # "" THEN raw
    ELSE Got(CASE width = 1 -> raw.val[1][1]
               [] width = 2 -> RdU16(raw.val[1])
               [] OTHER -> RdU32(raw.val[1]), raw.pos)

\* the size of a string, list or dict: the marker's low nibble (width 0), or
\* _read_u8, _read_u16be, _read_u32be
ReadSize(buf, pos, width, nibble) ==
    IF width = 0 THEN Got(nibble, pos) ELSE FixedSize(width, ReadFixed(buf, pos, width))

UnpackBody(buf, kind, size) ==
    IF size.err # "" THEN size
    ELSE CASE kind = "str" -> UnpackString(buf, size.pos, size.val[1])
           [] kind = "list" -> UnpackList(buf, size.pos, size.val[1], <<>>)
           [] OTHER -> UnpackDict(buf, size.pos, size.val[1], <<>>)

\* The elif chain of unpack, in its order, as the branch it takes: the kind of
\* value, the bytes of size or integer read after the marker, and the value
\* the marker itself holds.  0xD4..0xD6 are taken by the list branches, so the
\* dict branches written for the same markers are never reached and
\* 0xD8..0xDA fall through to the final else.
Branch(kind, width, held) == [kind |-> kind, width |-> width, held |-> held]

MarkerBranch(marker) ==
    IF marker = 192 THEN Branch("null", 0, 0)
    ELSE IF marker < 128 THEN Branch("tiny", 0, marker)
    ELSE IF marker >= 240 THEN Branch("tiny", 0, marker - 256)
    ELSE IF marker = 200 THEN Branch("int", 1, 0)
    ELSE IF marker = 201 THEN Branch("int", 2, 0)
    ELSE IF marker = 202 THEN Branch("int", 4, 0)
    ELSE IF marker = 203 THEN Branch("int", 8, 0)
    ELSE IF 128 <= marker /\ marker <= 143 THEN Branch("str", 0, marker % 16)
    ELSE IF marker = 208 THEN Branch("str", 1, 0)
    ELSE IF marker = 209 THEN Branch("str", 2, 0)
    ELSE IF marker = 210 THEN Branch("str", 4, 0)
    ELSE IF 144 <= marker /\ marker <= 159 THEN Branch("list", 0, marker % 16)
    ELSE IF marker = 212 THEN Branch("list", 1, 0)
    ELSE IF marker = 213 THEN Branch("list", 2, 0)
    ELSE IF marker = 214 THEN Branch("list", 4, 0)
    ELSE IF 160 <= marker /\ marker <= 175 THEN Branch("dict", 0, marker % 16)
    ELSE IF marker = 212 THEN Branch("dict", 1, 0)
    ELSE IF marker = 213 THEN Branch("dict", 2, 0)
    ELSE IF marker = 214 THEN Branch("dict", 4, 0)
    ELSE Branch("unsupported", 0, 0)

UnpackBranch(buf, pos, b) ==
    CASE b.kind = "null" -> Got(VNull, pos)
      [] b.kind = "tiny" -> Got(VInt(b.held), pos)
      [] b.kind = "int" -> UnpackFixedInt(buf, pos, b.width)
      [] b.kind = "unsupported" -> Fail("ValueError")
      [] OTHER -> UnpackBody(buf, b.kind, ReadSize(buf, pos, b.width, b.held))

\* marker = self._read_u8(), then the chain
Unpack(buf, pos) ==
    IF Len(buf) < pos THEN Fail("struct.error")
    ELSE UnpackBranch(buf, pos + 1, MarkerBranch(buf[pos]))

(***************************************************************************)
(* MessageWriter.write_message: the bytes it hands to the wire, or the     *)
(* exception it raises before any byte is handed over.                     *)
(***************************************************************************)
MaxChunk == 32767

RECURSIVE PackFields(_, _)
PackFields(fields, i) ==
    IF i > Len(fields) THEN Bytes(<<>>)
    ELSE Both(Pack(fields[i]), PackFields(fields, i + 1))

\* _write_chunk: a 16-bit big-endian size, then the data
WriteChunk(data) == U16be(Len(data)) \o data

\* a writer without the loop, which hands all the data over as one chunk
ChunksWhole(data, offset) ==
    IF offset >= Len(data) THEN <<>> ELSE WriteChunk(data)

\* the loop "for offset in range(0, len(data), 32767)", offset counted from 0
RECURSIVE Chunks(_, _)
Chunks(data, offset) ==
    IF offset >= Len(data) THEN <<>>
    ELSE WriteChunk(SubSeq(data, offset + 1, Min(Len(data), offset + MaxChunk)))
         \o Chunks(data, offset + MaxChunk)

\* lines 45-48 on the data of a message whose fields were packed
Framed(data) ==
    IF data.err # "" THEN Raise(data.err)
    ELSE Bytes(Chunks(data.bytes, 0) \o WriteChunk(<<>>))

\* data: the structure header, the tag and the packed fields
MessageData(tag, fields) ==
    Both(Bytes(<<176 + Len(fields), tag>>), PackFields(fields, 1))

\* bytearray([0xB0 + len(fields), tag]) raises ValueError above 255
WriteMessage(tag, fields) ==
    IF 176 + Len(fields) > 255 THEN Raise("ValueError")
    ELSE Framed(MessageData(tag, fields))

(***************************************************************************)
(* MessageReader.read_message over the byte stream inp the wire can still  *)
(* deliver.  ReadChunks is the loop that fills the buffer: short means     *)
(* that the stream ends before the zero-length chunk.                      *)
(***************************************************************************)
RECURSIVE ReadChunks(_, _, _)
ReadChunks(inp, pos, buf) ==
    IF Len(inp) < pos + 1 THEN [short |-> TRUE, buf |-> buf, pos |-> pos]
    ELSE LET size == RdU16(SubSeq(inp, pos, pos + 1))
         IN  IF size = 0 THEN [short |-> FALSE, buf |-> buf, pos |-> pos + 2]
             ELSE IF Len(inp) < pos + 1 + size
                  THEN [short |-> TRUE, buf |-> buf, pos |-> pos]
             ELSE ReadChunks(inp, pos + 2 + size,
                             buf \o SubSeq(inp, pos + 2, pos + 1 + size))

RECURSIVE UnpackFields(_, _, _, _)
NextField(buf, n, acc, one) ==
    IF one.err # "" THEN [err |-> one.err, fields |-> <<>>]
    ELSE UnpackFields(buf, one.pos, n - 1, Append(acc, one.val[1]))

\* tuple(self._unpacker.unpack() for _ in range(n))
UnpackFields(buf, pos, n, acc) ==
    IF n = 0 THEN [err |-> "", fields |-> acc]
    ELSE NextField(buf, n, acc, Unpack(buf, pos))

Parsed(tag, got) == [err |-> got.err, tag |-> tag, fields |-> got.fields]

\* lines 81-85: ord() of an empty read raises TypeError; the high nibble of
\* the first byte is dropped by divmod
ParseMessage(buf) ==
    IF Len(buf) < 2 THEN [err |-> "TypeError", tag |-> 0, fields |-> <<>>]
    ELSE Parsed(buf[2], UnpackFields(buf, 3, buf[1] % 16, <<>>))

Message(inp, chunks, msg) ==
    [short |-> FALSE, err |-> msg.err, tag |-> msg.tag, fields |-> msg.fields,
     buf |-> chunks.buf, rest |-> SubSeq(inp, chunks.pos, Len(inp))]

MessageOf(inp, chunks) ==
    IF chunks.short
    THEN [short |-> TRUE, err |-> "", tag |-> 0, fields |-> <<>>,
          buf |-> chunks.buf, rest |-> inp]
    ELSE Message(inp, chunks, ParseMessage(chunks.buf))

\* [short, err, tag, fields, buf, rest]: rest is the stream after the message
ReadMessage(inp) == MessageOf(inp, ReadChunks(inp, 1, <<>>))

\* the tags of the messages in a stream of chunks, up to the first message
\* that is not whole (-1: a message without a tag)
RECURSIVE RequestTags(_, _)
TagsFrom(out, chunks) ==
    IF chunks.short THEN <<>>
    ELSE <<IF Len(chunks.buf) >= 2 THEN chunks.buf[2] ELSE -1>> \o RequestTags(out, chunks.pos)

RequestTags(out, pos) == TagsFrom(out, ReadChunks(out, pos, <<>>))

(***************************************************************************)
(* The session.                                                            *)
(*                                                                         *)
(* Client (Bolt, BoltResult, BoltResponse):                                *)
(*   heap          the BoltResponse objects, in the order they were made;  *)
(*                 a response is named by its index in heap                *)
(*   responses     Bolt.responses, the deque of pending responses          *)
(*   results       the BoltResult objects, in the order run() made them    *)
(*   server_agent, connection_id   <<>> is None, <<v>> a value             *)
(*   pc, target    where the one caller is: "start" before open(),         *)
(*                 "handshake" in open() reading the version, "hello" and  *)
(*                 "sync" inside _wait(target), "idle" between calls,      *)
(*                 "failed" when open() raised and no Bolt exists          *)
(*   outcome       what the last finished call returned or raised          *)
(* Wire (written from its contract: write, send, read, close, closed,      *)
(* broken) and the socket under it:                                        *)
(*   wire          [output, closed, broken]                                *)
(*   sent          every byte the socket took, in order                    *)
(*   inbound       the bytes of the server not yet read                    *)
(*   eof           the server has closed its side                          *)
(* Server:                                                                 *)
(*   srv           [version, msgs, recs]: version reply sent, messages     *)
(*                 and RECORDs sent so far                                 *)
(* codec, frame    the scenarios of CodecSpec and FrameSpec                *)
(***************************************************************************)
VARIABLES pc, target, responses, heap, results, server_agent, connection_id,
          outcome, wire, sent, inbound, eof, srv, codec, frame

clientVars == <<pc, target, responses, heap, results, server_agent, connection_id,
                outcome>>
wireVars == <<wire, sent, inbound, eof>>
sessionVars == <<clientVars, wireVars, srv>>
vars == <<sessionVars, codec, frame>>

\* at most this many requests are written by hello, run and pull
MaxRequests == 3
\* at most this many messages are sent by the server
MaxInbound == 4
\* at most this many messages of the server wait unread
MaxAhead == 2

K_user_agent == <<117, 115, 101, 114, 95, 97, 103, 101, 110, 116>>
K_dct2 == <<100, 99, 116, 47, 50>>
K_scheme == <<115, 99, 104, 101, 109, 101>>
K_basic == <<98, 97, 115, 105, 99>>
K_principal == <<112, 114, 105, 110, 99, 105, 112, 97, 108>>
K_credentials == <<99, 114, 101, 100, 101, 110, 116, 105, 97, 108, 115>>
K_db == <<100, 98>>
K_n == <<110>>
K_server == <<115, 101, 114, 118, 101, 114>>
K_connection_id == <<99, 111, 110, 110, 101, 99, 116, 105, 111, 110, 95, 105, 100>>
K_neo4j == <<110, 101, 111, 52, 106>>
K_password == <<112, 97, 115, 115, 119, 111, 114, 100>>
K_cypher == <<82, 69, 84, 85, 82, 78, 32, 49>>
K_Neo4j == <<78, 101, 111, 52, 106, 47, 52, 46, 48, 46, 48>>
K_bolt1 == <<98, 111, 108, 116, 45, 49>>
K_code == <<99, 111, 100, 101>>
K_x == <<120>>

\* dict.get(key): <<>> is None
DictGet(pairs, k) ==
    IF \E i \in 1..Len(pairs) : pairs[i][1] = k
    THEN <<pairs[CHOOSE i \in 1..Len(pairs) : pairs[i][1] = k][2]>>
    ELSE <<>>

RECURSIVE DictUpdate(_, _, _)
DictUpdate(pairs, more, i) ==
    IF i > Len(more) THEN pairs
    ELSE DictUpdate(DictPut(pairs, more[i][1], more[i][2]), more, i + 1)

(***************************************************************************)
(* Wire.                                                                   *)
(***************************************************************************)
WireWrite(w, data) == [w EXCEPT !.output = @ \o data]

\* send(): flush what is buffered; net says whether the socket takes it
WireSend(w, out, net) ==
    IF w.output = <<>> THEN [err |-> "", wire |-> w, sent |-> out]
    ELSE IF w.closed \/ w.broken \/ ~net
         THEN [err |-> "WireError", wire |-> [w EXCEPT !.broken = TRUE], sent |-> out]
    ELSE [err |-> "", wire |-> [w EXCEPT !.output = <<>>], sent |-> out \o w.output]

WireClose(w) == [w EXCEPT !.closed = TRUE]

\* a send to a peer that has closed may still be taken, or fail
NetOutcomes == IF eof THEN {TRUE, FALSE} ELSE {TRUE}

(***************************************************************************)
(* BoltResponse and BoltResult.                                            *)
(***************************************************************************)
BoltResponse == [records |-> <<>>, status |-> 0, metadata |-> <<>>]
BoltResult(response) == [items |-> <<response>>, complete |-> FALSE]

\* a done() that looks at the newest response, whichever is asked about
DoneNewest(h, r) == h[Len(h)].status # 0

\* BoltResponse.done
Done(h, r) == h[r].status # 0
ResponseHasRecords(h, r) == h[r].records # <<>>
Last(result) == result.items[Len(result.items)]
HasRecords(h, result) ==
    \E i \in 1..Len(result.items) : ResponseHasRecords(h, result.items[i])

\* a take_record that looks for records from the newest response backwards
TakeFromNewest(h, result) ==
    result.items[CHOOSE i \in 1..Len(result.items) :
                    /\ ResponseHasRecords(h, result.items[i])
                    /\ \A j \in (i + 1)..Len(result.items) :
                         ~ResponseHasRecords(h, result.items[j])]

\* BoltResult.take_record: the first record of the first response that has one
TakeFrom(h, result) ==
    result.items[CHOOSE i \in 1..Len(result.items) :
                    /\ ResponseHasRecords(h, result.items[i])
                    /\ \A j \in 1..(i - 1) : ~ResponseHasRecords(h, result.items[j])]

TakeRecord(h, result) ==
    IF HasRecords(h, result)
    THEN LET r == TakeFrom(h, result)
         IN  [ret |-> <<Head(h[r].records)>>,
              heap |-> [h EXCEPT ![r].records = Tail(@)]]
    ELSE [ret |-> <<>>, heap |-> h]

(***************************************************************************)
(* Bolt._write_request and Bolt._fetch as functions of the state they      *)
(* touch.                                                                  *)
(***************************************************************************)
\* a _write_request that appends the response before it writes the message
WriteRequestEager(w, h, q, tag, fields) ==
    LET msg == WriteMessage(tag, fields)
    IN  IF msg.err # ""
        THEN [err |-> msg.err, wire |-> w, heap |-> Append(h, BoltResponse),
              responses |-> Append(q, Len(h) + 1), response |-> 0]
        ELSE [err |-> "", wire |-> WireWrite(w, msg.bytes),
              heap |-> Append(h, BoltResponse),
              responses |-> Append(q, Len(h) + 1), response |-> Len(h) + 1]

\* [err, wire, heap, responses, response]: nothing changes when packing raises
WriteRequest(w, h, q, tag, fields) ==
    LET msg == WriteMessage(tag, fields)
    IN  IF msg.err # ""
        THEN [err |-> msg.err, wire |-> w, heap |-> h, responses |-> q, response |-> 0]
        ELSE [err |-> "", wire |-> WireWrite(w, msg.bytes),
              heap |-> Append(h, BoltResponse),
              responses |-> Append(q, Len(h) + 1), response |-> Len(h) + 1]

\* a fetch that credits the newest pending response, not the oldest
FetchNewest(q) == q[Len(q)]

\* rs = self.responses[0]
FetchHead(q) == q[1]

\* a set_success that marks the response and forgets the metadata
SetSuccessBare(h, rs, fields) ==
    IF Len(fields) = 0 THEN [err |-> "IndexError", heap |-> h]
    ELSE IF fields[1].t # "dict" THEN [err |-> "TypeError", heap |-> h]
    ELSE [err |-> "", heap |-> [h EXCEPT ![rs].status = 1]]

\* rs.set_success(**fields[0]): a mapping with string keys, or TypeError
SetSuccess(h, rs, fields) ==
    IF Len(fields) = 0 THEN [err |-> "IndexError", heap |-> h]
    ELSE IF fields[1].t # "dict" THEN [err |-> "TypeError", heap |-> h]
    ELSE IF \E i \in 1..Len(fields[1].v) : fields[1].v[i][1].t # "str"
         THEN [err |-> "TypeError", heap |-> h]
    ELSE [err |-> "",
          heap |-> [h EXCEPT ![rs].status = 1,
                             ![rs].metadata = DictUpdate(@, fields[1].v, 1)]]

\* rs.add_record(fields[0])
AddRecord(h, rs, fields) ==
    IF Len(fields) = 0 THEN [err |-> "IndexError", heap |-> h]
    ELSE [err |-> "", heap |-> [h EXCEPT ![rs].records = Append(@, fields[1])]]

\* a _fetch without self.responses.popleft()
DispatchKeep(h, q, tag, fields) ==
    IF tag = 112
    THEN [err |-> SetSuccess(h, FetchHead(q), fields).err,
          heap |-> SetSuccess(h, FetchHead(q), fields).heap, responses |-> q]
    ELSE IF tag = 113
    THEN [err |-> AddRecord(h, FetchHead(q), fields).err,
          heap |-> AddRecord(h, FetchHead(q), fields).heap, responses |-> q]
    ELSE [err |-> "", heap |-> h, responses |-> q]

\* lines 162-168 on a message that was read: [err, heap, responses]
Dispatch(h, q, tag, fields) ==
    LET rs == FetchHead(q)
    IN  IF tag = 112
        THEN LET done == SetSuccess(h, rs, fields)
             IN  [err |-> done.err, heap |-> done.heap,
                  responses |-> IF done.err = "" THEN Tail(q) ELSE q]
        ELSE IF tag = 113
        THEN LET added == AddRecord(h, rs, fields)
             IN  [err |-> added.err, heap |-> added.heap, responses |-> q]
        ELSE [err |-> "", heap |-> h, responses |-> q]

(***************************************************************************)
(* What the caller passes and what the server may send.                    *)
(***************************************************************************)
Preamble == <<96, 96, 176, 23>>
Versions == <<0, 0, 0, 4, 0, 0, 0, 0, 0, 0, 0, 0, 0, 0, 0, 0>>

\* hello(user, password) builds this dict, in this order
HelloExtra(user, password) ==
    VDict(<< <<VStr(K_user_agent), VStr(K_dct2)>>, <<VStr(K_scheme), VStr(K_basic)>>,
             <<VStr(K_principal), user>>, <<VStr(K_credentials), password>> >>)

\* run(cypher, parameters, db=None): {"db": db} is never empty, so it is sent
RunFields(cypher, parameters) ==
    <<cypher, parameters, VDict(<< <<VStr(K_db), VNull>> >>)>>

\* pull(result, n=-1)
PullFields(n) == <<VDict(<< <<VStr(K_n), n>> >>)>>

\* the n a caller passes to pull: the default, or one the packer refuses
PullSizes == {VInt(-1), VBig(Pow63)}

\* the password a caller passes to open: one that encodes, or a lone surrogate
Passwords == {VStr(K_password), VStr(<<55296>>)}

\* the parameters a caller passes to run: none, or one the packer refuses
Parameters == {VDict(<<>>), VDict(<< <<VStr(K_x), VFloat>> >>)}

\* the 4 bytes the server may answer the handshake with: 4.0, nothing, 4.1
VersionReplies == {<<0, 0, 0, 4>>, <<0, 0, 0, 0>>, <<0, 0, 1, 4>>}

SuccessMeta == VDict(<< <<VStr(K_server), VStr(K_Neo4j)>>,
                        <<VStr(K_connection_id), VStr(K_bolt1)>> >>)
FailureMeta == VDict(<< <<VStr(K_code), VStr(K_x)>> >>)

\* the messages of the server: SUCCESS, the k-th RECORD, FAILURE, IGNORED and
\* one with a tag of no known message
ServerKinds == {"success", "record", "failure", "ignored", "other"}
ServerMessage(kind, k) ==
    CASE kind = "success" -> WriteMessage(112, <<SuccessMeta>>).bytes
      [] kind = "record" -> WriteMessage(113, <<VList(<<VInt(k)>>)>>).bytes
      [] kind = "failure" -> WriteMessage(127, <<FailureMeta>>).bytes
      [] kind = "ignored" -> WriteMessage(126, <<>>).bytes
      [] OTHER -> WriteMessage(125, <<>>).bytes

\* outcome: the call, the result it was made on or, for run, made (0: none),
\* the exception it raised ("": none) and what it returned (<<>>: None or,
\* for run, the result)
Returned(op, r, ret) == [op |-> op, result |-> r, err |-> "", ret |-> ret]
Raised(op, r, e) == [op |-> op, result |-> r, err |-> e, ret |-> <<>>]

CodecIdle == [phase |-> "idle"]
FrameIdle == [phase |-> "idle"]

SessionInit ==
    /\ pc = "start"
    /\ target = 0
    /\ responses = <<>>
    /\ heap = <<>>
    /\ results = <<>>
    /\ server_agent = <<>>
    /\ connection_id = <<>>
    /\ outcome = Returned("", 0, <<>>)
    /\ wire = [output |-> <<>>, closed |-> FALSE, broken |-> FALSE]
    /\ sent = <<>>
    /\ inbound = <<>>
    /\ eof = FALSE
    /\ srv = [version |-> FALSE, msgs |-> 0, recs |-> 0]

Init == SessionInit /\ codec = CodecIdle /\ frame = FrameIdle

(***************************************************************************)
(* open(): the handshake, then Bolt(wire) and hello().                     *)
(***************************************************************************)
\* handshake(), up to wire.send()
OpenDial ==
    /\ pc = "start"
    /\ \E net \in NetOutcomes :
         LET s == WireSend(WireWrite(WireWrite(wire, Preamble), Versions), sent, net)
         IN  /\ wire' = s.wire
             /\ sent' = s.sent
             /\ pc' = IF s.err # "" THEN "failed" ELSE "handshake"
             /\ outcome' = IF s.err # "" THEN Raised("open", 0, s.err) ELSE outcome
    /\ UNCHANGED <<target, responses, heap, results, server_agent, connection_id,
                   inbound, eof, srv, codec, frame>>

\* hello(user, password), up to the call of _wait(response)
Hello(user, password) ==
    \E net \in NetOutcomes :
      LET req == WriteRequest(wire, heap, responses, 1, <<HelloExtra(user, password)>>)
          s == WireSend(req.wire, sent, net)
      IN  /\ heap' = req.heap
          /\ responses' = req.responses
          /\ wire' = s.wire
          /\ sent' = s.sent
          /\ IF req.err # "" \/ s.err # ""
             THEN /\ pc' = "failed"
                  /\ target' = 0
                  /\ outcome' = Raised("open", 0, IF req.err # "" THEN req.err ELSE s.err)
             ELSE /\ pc' = "hello"
                  /\ target' = req.response
                  /\ outcome' = outcome

\* v = wire.read(4); assert (v[-1], v[-2]) == (4, 0); cls(wire); hello(...)
HandshakeRead ==
    /\ pc = "handshake"
    /\ Len(inbound) >= 4 \/ eof
    /\ IF Len(inbound) < 4
       THEN /\ wire' = [wire EXCEPT !.broken = TRUE]
            /\ pc' = "failed"
            /\ outcome' = Raised("open", 0, "WireError")
            /\ UNCHANGED <<target, responses, heap, sent, inbound>>
       ELSE /\ inbound' = SubSeq(inbound, 5, Len(inbound))
            /\ IF <<inbound[4], inbound[3]>> # <<4, 0>>
               THEN /\ pc' = "failed"
                    /\ outcome' = Raised("open", 0, "AssertionError")
                    /\ UNCHANGED <<target, responses, heap, wire, sent>>
               ELSE \E password \in Passwords : Hello(VStr(K_neo4j), password)
    /\ UNCHANGED <<results, server_agent, connection_id, eof, srv, codec, frame>>

(***************************************************************************)
(* _wait(response): "while not response.done(): self._fetch()".            *)
(***************************************************************************)
Waiting == pc \in {"hello", "sync"}
Caller == IF pc = "hello" THEN "open" ELSE pc

\* an exception leaves _wait and the call around it; open() then has no Bolt
WaitRaise(e) ==
    /\ pc' = IF pc = "hello" THEN "failed" ELSE "idle"
    /\ target' = 0
    /\ outcome' = Raised(Caller, outcome.result, e)

\* _fetch(): blocks until a whole message, or the end of the stream, is there
Fetch ==
    /\ Waiting
    /\ ~Done(heap, target)
    /\ IF responses = <<>>
       THEN /\ WaitRaise("IndexError")
            /\ UNCHANGED <<responses, heap, wire, inbound>>
       ELSE IF wire.closed \/ wire.broken
       THEN /\ WaitRaise("WireError")
            /\ wire' = [wire EXCEPT !.broken = TRUE]
            /\ UNCHANGED <<responses, heap, inbound>>
       ELSE LET msg == ReadMessage(inbound)
            IN  IF msg.short
                THEN /\ eof
                     /\ WaitRaise("WireError")
                     /\ wire' = [wire EXCEPT !.broken = TRUE]
                     /\ UNCHANGED <<responses, heap, inbound>>
                ELSE /\ inbound' = msg.rest
                     /\ wire' = wire
                     /\ IF msg.err # ""
                        THEN WaitRaise(msg.err) /\ UNCHANGED <<responses, heap>>
                        ELSE LET d == Dispatch(heap, responses, msg.tag, msg.fields)
                             IN  /\ heap' = d.heap
                                 /\ responses' = d.responses
                                 /\ IF d.err # "" THEN WaitRaise(d.err)
                                    ELSE UNCHANGED <<pc, target, outcome>>
    /\ UNCHANGED <<results, server_agent, connection_id, sent, eof, srv, codec, frame>>

\* response.done(): _wait returns; hello() then reads the metadata
WaitReturn ==
    /\ Waiting
    /\ Done(heap, target)
    /\ pc' = "idle"
    /\ target' = 0
    /\ outcome' = Returned(Caller, outcome.result, <<>>)
    /\ IF pc = "hello"
       THEN /\ server_agent' = DictGet(heap[target].metadata, VStr(K_server))
            /\ connection_id' = DictGet(heap[target].metadata, VStr(K_connection_id))
       ELSE UNCHANGED <<server_agent, connection_id>>
    /\ UNCHANGED <<responses, heap, results, wireVars, srv, codec, frame>>

(***************************************************************************)
(* The calls on an open session.                                           *)
(***************************************************************************)
Run(parameters) ==
    /\ pc = "idle"
    /\ Len(heap) < MaxRequests
    /\ LET req == WriteRequest(wire, heap, responses, 16,
                               RunFields(VStr(K_cypher), parameters))
       IN  /\ wire' = req.wire
           /\ heap' = req.heap
           /\ responses' = req.responses
           /\ IF req.err # ""
              THEN outcome' = Raised("run", 0, req.err) /\ results' = results
              ELSE /\ outcome' = Returned("run", Len(results) + 1, <<>>)
                   /\ results' = Append(results, BoltResult(req.response))
    /\ UNCHANGED <<pc, target, server_agent, connection_id, sent, inbound, eof, srv,
                   codec, frame>>

\* result.append(response, final=True)
Pull(r, n) ==
    /\ pc = "idle"
    /\ Len(heap) < MaxRequests
    /\ LET req == WriteRequest(wire, heap, responses, 63, PullFields(n))
       IN  /\ wire' = req.wire
           /\ heap' = req.heap
           /\ responses' = req.responses
           /\ IF req.err # ""
              THEN outcome' = Raised("pull", r, req.err) /\ results' = results
              ELSE /\ outcome' = Returned("pull", r, <<req.response>>)
                   /\ results' = [results EXCEPT ![r].items = Append(@, req.response),
                                                 ![r].complete = TRUE]
    /\ UNCHANGED <<pc, target, server_agent, connection_id, sent, inbound, eof, srv,
                   codec, frame>>

\* a sync without self._send(): it waits with the requests still buffered
SyncUnflushed(r) ==
    /\ pc = "idle"
    /\ pc' = "sync"
    /\ target' = Last(results[r])
    /\ outcome' = [outcome EXCEPT !.result = r]
    /\ UNCHANGED <<responses, heap, results, server_agent, connection_id, wireVars,
                   srv, codec, frame>>

\* self._send(), then self._wait(result.last())
Sync(r) ==
    /\ pc = "idle"
    /\ \E net \in NetOutcomes :
         LET s == WireSend(wire, sent, net)
         IN  /\ wire' = s.wire
             /\ sent' = s.sent
             /\ IF s.err # ""
                THEN outcome' = Raised("sync", r, s.err) /\ UNCHANGED <<pc, target>>
                ELSE /\ pc' = "sync"
                     /\ target' = Last(results[r])
                     /\ outcome' = [outcome EXCEPT !.result = r]
    /\ UNCHANGED <<responses, heap, results, server_agent, connection_id, inbound, eof,
                   srv, codec, frame>>

\* "if not result.has_records() and not result.done()": BoltResult has no
\* method done, so the test raises AttributeError whenever no record is
\* buffered and the loop under it is never entered
Take(r) ==
    /\ pc = "idle"
    /\ IF ~HasRecords(heap, results[r])
       THEN outcome' = Raised("take", r, "AttributeError") /\ heap' = heap
       ELSE LET t == TakeRecord(heap, results[r])
            IN  outcome' = Returned("take", r, t.ret) /\ heap' = t.heap
    /\ UNCHANGED <<pc, target, responses, results, server_agent, connection_id,
                   wireVars, srv, codec, frame>>

\* result.take_record(), called on the result itself as __main__ does
TakeRecordCall(r) ==
    /\ pc = "idle"
    /\ LET t == TakeRecord(heap, results[r])
       IN  outcome' = Returned("take_record", r, t.ret) /\ heap' = t.heap
    /\ UNCHANGED <<pc, target, responses, results, server_agent, connection_id,
                   wireVars, srv, codec, frame>>

\* a close() that only looks at broken
CloseIsNoOpWhenBroken(w) == w.broken

\* "if self.closed or self.broken: return"
CloseIsNoOp(w) == w.closed \/ w.broken

\* close(): goodbye() is _write_request(0x02) and _send(); then wire.close()
Close ==
    /\ pc = "idle"
    /\ IF CloseIsNoOp(wire)
       THEN /\ outcome' = Returned("close", 0, <<>>)
            /\ UNCHANGED <<responses, heap, wire, sent>>
       ELSE \E net \in NetOutcomes :
              LET req == WriteRequest(wire, heap, responses, 2, <<>>)
                  s == WireSend(req.wire, sent, net)
              IN  /\ heap' = req.heap
                  /\ responses' = req.responses
                  /\ sent' = s.sent
                  /\ IF s.err # ""
                     THEN wire' = s.wire /\ outcome' = Raised("close", 0, s.err)
                     ELSE /\ wire' = WireClose(s.wire)
                          /\ outcome' = Returned("close", 0, <<>>)
    /\ UNCHANGED <<pc, target, results, server_agent, connection_id, inbound, eof, srv,
                   codec, frame>>

(***************************************************************************)
(* The server: any stream of messages, a few ahead of the client at most.  *)
(***************************************************************************)
ServerVersion(v) ==
    /\ pc = "handshake"
    /\ ~srv.version
    /\ ~eof
    /\ inbound' = inbound \o v
    /\ srv' = [srv EXCEPT !.version = TRUE]
    /\ UNCHANGED <<clientVars, wire, sent, eof, codec, frame>>

ServerSend(kind) ==
    /\ srv.version
    /\ ~eof
    /\ srv.msgs < MaxInbound
    /\ Len(RequestTags(inbound, 1)) < MaxAhead
    /\ inbound' = inbound \o ServerMessage(kind, srv.recs + 1)
    /\ srv' = [srv EXCEPT !.msgs = @ + 1,
                          !.recs = IF kind = "record" THEN @ + 1 ELSE @]
    /\ UNCHANGED <<clientVars, wire, sent, eof, codec, frame>>

ServerClose ==
    /\ ~eof
    /\ eof' = TRUE
    /\ UNCHANGED <<clientVars, wire, sent, inbound, srv, codec, frame>>

Next ==
    \/ OpenDial
    \/ HandshakeRead
    \/ Fetch
    \/ WaitReturn
    \/ \E parameters \in Parameters : Run(parameters)
    \/ \E r \in 1..Len(results), n \in PullSizes : Pull(r, n)
    \/ \E r \in 1..Len(results) : Sync(r)
    \/ \E r \in 1..Len(results) : Take(r)
    \/ \E r \in 1..Len(results) : TakeRecordCall(r)
    \/ Close
    \/ \E v \in VersionReplies : ServerVersion(v)
    \/ \E kind \in ServerKinds : ServerSend(kind)
    \/ ServerClose

Spec == Init /\ [][Next]_vars

(***************************************************************************)
(* The session against a server that answers: to every request it has      *)
(* received, but GOODBYE, it sends some RECORDs and then a SUCCESS, and it  *)
(* does not hang up.                                                       *)
(***************************************************************************)
\* at most this many RECORDs are sent by the server that answers
MaxRecords == 2

\* the requests the server has received and answers
Asked == SelectSeq(RequestTags(sent, Len(Preamble) + Len(Versions) + 1),
                   LAMBDA tag : tag # 2)

\* the requests it has answered with a SUCCESS
Answered == srv.msgs - srv.recs

\* the server owes an answer and the client has room for a message
ServerOwes ==
    /\ srv.version
    /\ ~eof
    /\ Answered < Len(Asked)
    /\ Len(RequestTags(inbound, 1)) < MaxAhead

ServerAnswer(kind) ==
    /\ ServerOwes
    /\ kind = "record" => srv.recs < MaxRecords
    /\ inbound' = inbound \o ServerMessage(kind, srv.recs + 1)
    /\ srv' = [srv EXCEPT !.msgs = @ + 1,
                          !.recs = IF kind = "record" THEN @ + 1 ELSE @]
    /\ UNCHANGED <<clientVars, wire, sent, eof, codec, frame>>

LiveNext ==
    \/ OpenDial
    \/ HandshakeRead
    \/ Fetch
    \/ WaitReturn
    \/ \E parameters \in Parameters : Run(parameters)
    \/ \E r \in 1..Len(results), n \in PullSizes : Pull(r, n)
    \/ \E r \in 1..Len(results) : Sync(r)
    \/ \E r \in 1..Len(results) : Take(r)
    \/ \E r \in 1..Len(results) : TakeRecordCall(r)
    \/ Close
    \/ \E v \in VersionReplies : ServerVersion(v)
    \/ \E kind \in {"record", "success"} : ServerAnswer(kind)

\* ENABLED <<Fetch>>_vars: _fetch is called and does not block in read
FetchReady ==
    /\ Waiting
    /\ ~Done(heap, target)
    /\ \/ responses = <<>>
       \/ wire.closed \/ wire.broken
       \/ eof
       \/ ~ReadChunks(inbound, 1, <<>>).short

\* WF_vars(Fetch) and WF_vars(ServerAnswer("success")): WF_v(A) is
\* []<>~ENABLED <<A>>_v \/ []<><<A>>_v, and the two ENABLED are written out as
\* the state predicates they are
FetchFair == []<>(~FetchReady) \/ []<><<Fetch>>_vars
AnswerFair == []<>(~ServerOwes) \/ []<><<ServerAnswer("success")>>_vars

\* _wait is a loop of one thread that calls _fetch, which blocks in read,
\* until the response is done: the loop goes on whenever it can.  The server
\* sends the SUCCESS it owes whenever the client has room for it.
LiveSpec ==
    /\ Init /\ [][LiveNext]_vars
    /\ FetchFair
    /\ WF_vars(WaitReturn)
    /\ AnswerFair

(***************************************************************************)
(* The codec on its own: pack(v) into an empty buffer, then unpack() of    *)
(* the bytes it wrote, or of a proper prefix of them; and _pack_header of  *)
(* a size with the markers of str, list or dict.                           *)
(*   codec   [phase, value, markers, packed, out]: the value (or the size, *)
(*           as an int), what Pack gave for it and what Unpack gave for    *)
(*           the bytes                                                     *)
(***************************************************************************)
\* lists and dicts of 0 .. MaxEntries entries are packed
MaxEntries == 17

\* a str of n ASCII letters, a list of n integers, a dict of n entries
Letters(n) == [i \in 1..n |-> 97 + (i % 26)]
ListOf(n) == VList([i \in 1..n |-> VInt(i)])
KeyOf(i) == <<107, 48 + ((i \div 10) % 10), 48 + (i % 10)>>
DictOf(n) == VDict([i \in 1..n |-> <<VStr(KeyOf(i)), VInt(i)>>])

\* the integers at the edges of the five encodings, and 2^63
IntValues ==
    {VInt(n) : n \in {0, 1, -1, 127, 128, -16, -17, -128, -129, 32767, 32768,
                      -32768, -32769, 2147483647, -2147483647}}
    \cup {VBig(Pow31), VBig(NegPow31), VBig(<<-1, Limb - 129, Limb - 1>>),
          VBig(<<32767, Limb - 1, Limb - 1>>), VBig(NegPow63), VBig(Pow63)}

\* strings at the edges of the four size encodings, and some that are not ASCII
StrSizes == {0, 1, 15, 16, 255, 256, 65535, 65536}
StrValues ==
    {VStr(Letters(n)) : n \in StrSizes}
    \cup {VStr(<<233>>), VStr(<<8364, 97, 128512>>), VStr(<<55296>>)}

ListValues ==
    {ListOf(n) : n \in 0..MaxEntries}
    \cup {VList(<<VNull, VStr(K_x), ListOf(2), DictOf(1)>>), VList(<<VFloat>>)}

DictValues ==
    {DictOf(n) : n \in 0..MaxEntries}
    \cup {VDict(<< <<VStr(K_x), ListOf(16)>>, <<VStr(K_n), DictOf(2)>> >>),
          VDict(<< <<VStr(K_x), DictOf(16)>> >>),
          VDict(<< <<VInt(1), VNull>> >>),
          VDict(<< <<VStr(K_x), VBytes>> >>)}

CodecValues ==
    {VNull, VFloat, VBytes, VBool(0), VBool(1)}
    \cup IntValues \cup StrValues \cup ListValues \cup DictValues

CodecOf(v) ==
    [phase |-> "value", value |-> v, markers |-> <<>>, packed |-> Bytes(<<>>),
     out |-> Fail("")]

\* the sizes at the edges of the four headers, up to 2^32 and beyond
SizeValues ==
    {IntOf(n) : n \in {0, 1, 15, 16, 255, 256, 65535, 65536, 2147483647}}
    \cup {Pow31, <<0, 255, Limb - 1>>, Pow32, <<0, 256, 1>>, <<1, 0, 0>>}

\* tiny, small, medium, large of _pack_str, _pack_list and _pack_dict
HeaderMarkers == {<<128, 208, 209, 210>>, <<144, 212, 213, 214>>, <<160, 216, 217, 218>>}

SizeOf(x, m) == [CodecOf(VBig(x)) EXCEPT !.phase = "size", !.markers = m]

\* the lengths at which the packed bytes are cut
CutPoints(n) == {k \in {0, 1, 2, 3, 5, n \div 2, n - 1} : 0 <= k /\ k < n}

CodecInit ==
    /\ SessionInit
    /\ frame = FrameIdle
    /\ codec \in {CodecOf(v) : v \in CodecValues}
                 \cup {SizeOf(x, m) : x \in SizeValues, m \in HeaderMarkers}

\* SimplePacker(buffer).pack(value)
CodecPack ==
    /\ codec.phase = "value"
    /\ codec' = [codec EXCEPT !.phase = "packed", !.packed = Pack(codec.value)]
    /\ UNCHANGED <<sessionVars, frame>>

\* SimplePacker(buffer)._pack_header(size, tiny, small, medium, large)
CodecHeader ==
    /\ codec.phase = "size"
    /\ codec' = [codec EXCEPT !.phase = "header",
                              !.packed = PackHeaderOf(codec.value.v, codec.markers[1],
                                                      codec.markers[2], codec.markers[3],
                                                      codec.markers[4])]
    /\ UNCHANGED <<sessionVars, frame>>

\* the stream ends before the last byte of the value
CodecCut ==
    /\ codec.phase = "packed"
    /\ codec.packed.err = ""
    /\ \E k \in CutPoints(Len(codec.packed.bytes)) :
         codec' = [codec EXCEPT !.phase = "cut",
                                !.packed = Bytes(SubSeq(codec.packed.bytes, 1, k))]
    /\ UNCHANGED <<sessionVars, frame>>

\* SimpleUnpacker(BytesIO(packed)).unpack()
CodecUnpack ==
    /\ codec.phase \in {"packed", "cut"}
    /\ codec.packed.err = ""
    /\ codec' = [codec EXCEPT !.phase = IF codec.phase = "cut" THEN "truncated"
                                        ELSE "unpacked",
                              !.out = Unpack(codec.packed.bytes, 1)]
    /\ UNCHANGED <<sessionVars, frame>>

CodecNext == CodecPack \/ CodecHeader \/ CodecCut \/ CodecUnpack

CodecSpec == CodecInit /\ [][CodecNext]_vars

(***************************************************************************)
(* Claims about the codec (CodecSpec).                                     *)
(***************************************************************************)
\* the values the packer is written for: None, the integers of 64 bits, str,
\* lists of such values, dicts from distinct str keys to such values
RECURSIVE Supported(_)
Supported(v) ==
    CASE v.t = "null" -> TRUE
      [] v.t = "int" -> IntLE(NegPow63, v.v) /\ IntLT(v.v, Pow63)
      [] v.t = "str" -> \A i \in 1..Len(v.v) : ~IsSurrogate(v.v[i])
      [] v.t = "list" -> \A i \in 1..Len(v.v) : Supported(v.v[i])
      [] v.t = "dict" -> /\ \A i \in 1..Len(v.v) :
                              /\ v.v[i][1].t = "str"
                              /\ Supported(v.v[i][1])
                              /\ Supported(v.v[i][2])
                         /\ \A i, j \in 1..Len(v.v) : v.v[i][1] = v.v[j][1] => i = j
      [] OTHER -> FALSE

\* C2: every supported value, a map of any size included, is packed without
\* an exception, and unpacking the packed bytes gives a value equal to it
\* and ends exactly at the end of those bytes.
C2_RoundTrip ==
    Supported(codec.value) =>
        /\ codec.phase = "packed" => codec.packed.err = ""
        /\ codec.phase = "unpacked" =>
               codec.out = Got(codec.value, Len(codec.packed.bytes) + 1)

(***************************************************************************)
(* The message layer on its own: write_message(tag, fields) into a wire    *)
(* buffer, then read_message() from a wire that delivers those bytes; and  *)
(* read_message() of a payload that a peer framed.                         *)
(*   frame   [phase, n, written, read]: the message is a RUN-tagged        *)
(*           structure of one field, a str of n letters; n is -1 for the   *)
(*           payload of a peer, which starts as the bytes written          *)
(***************************************************************************)
\* every length 0 .. MaxSmallStr is written, and the lengths of BigStrs
MaxSmallStr == 30

\* with the 2 bytes of the message header and the 3 or 5 of the string's, data
\* of 32767, 32768, 40000, 65534, 65535, 65536, 98301 and 98302 bytes
BigStrs == {32762, 32763, 39995, 65529, 65530, 65531, 98294, 98295}

FrameFields(n) == <<VStr(Letters(n))>>

FrameOf(n) ==
    [phase |-> "payload", n |-> n, written |-> Bytes(<<>>), read |-> ReadMessage(<<>>)]

\* payloads of a peer: SUCCESS {} as it should be, with a byte left over,
\* with a field missing, with a first byte outside 0xB0..0xBF, without
\* fields, without a tag, empty, with two bytes left over, with 15 fields,
\* and with a string field cut short
RawPayloads ==
    {<<177, 112, 160>>, <<177, 112, 160, 192>>, <<178, 112, 160>>, <<17, 112, 160>>,
     <<193, 112, 1>>, <<176, 112>>, <<176>>, <<>>, <<176, 112, 1, 2>>,
     <<191, 112>> \o [i \in 1..15 |-> 192], <<177, 112, 133, 97, 98>>}

RawOf(payload) ==
    [phase |-> "raw", n |-> -1, written |-> Framed(Bytes(payload)),
     read |-> ReadMessage(<<>>)]

FrameInit ==
    /\ SessionInit
    /\ codec = CodecIdle
    /\ frame \in {FrameOf(n) : n \in (0..MaxSmallStr) \cup BigStrs}
                 \cup {RawOf(payload) : payload \in RawPayloads}

\* MessageWriter(wire).write_message(0x10, field)
FrameWrite ==
    /\ frame.phase = "payload"
    /\ frame' = [frame EXCEPT !.phase = "written",
                              !.written = WriteMessage(16, FrameFields(frame.n))]
    /\ UNCHANGED <<sessionVars, codec>>

\* MessageReader(wire).read_message()
FrameRead ==
    /\ frame.phase \in {"written", "raw"}
    /\ frame.written.err = ""
    /\ frame' = [frame EXCEPT !.phase = IF frame.phase = "raw" THEN "rawread" ELSE "read",
                              !.read = ReadMessage(frame.written.bytes)]
    /\ UNCHANGED <<sessionVars, codec>>

FrameNext == FrameWrite \/ FrameRead

FrameSpec == FrameInit /\ [][FrameNext]_vars

(***************************************************************************)
(* Claims about the message layer (FrameSpec).                             *)
(***************************************************************************)
\* the lengths of the chunks a byte stream is made of, read from their 2-byte
\* headers; -1 stands for a chunk the stream ends in the middle of
RECURSIVE ChunkLens(_, _)
ChunkLens(bs, pos) ==
    IF pos > Len(bs) THEN <<>>
    ELSE IF pos + 1 > Len(bs) \/ pos + 1 + RdU16(SubSeq(bs, pos, pos + 1)) > Len(bs)
         THEN <<-1>>
    ELSE <<RdU16(SubSeq(bs, pos, pos + 1))>>
         \o ChunkLens(bs, pos + 2 + RdU16(SubSeq(bs, pos, pos + 1)))

WellChunked(lens) ==
    /\ Len(lens) >= 1
    /\ \A k \in 1..Len(lens) : 0 <= lens[k] /\ lens[k] <= 32767
    /\ \A k \in 1..(Len(lens) - 1) : lens[k] > 0
    /\ lens[Len(lens)] = 0

\* C3: write_message emits chunks of at most 32767 bytes each, none before
\* the last of length 0, and ends with exactly one zero-length chunk;
\* read_message, reading them, gives back exactly the payload bytes (and so
\* the tag and the fields), and 40000 bytes of payload go out as chunks of
\* 32767, 7233 and 0 bytes.
C3_Chunking ==
    /\ frame.phase \in {"written", "read"} =>
         /\ frame.written.err = ""
         /\ WellChunked(ChunkLens(frame.written.bytes, 1))
         /\ frame.n = 39995 => ChunkLens(frame.written.bytes, 1) = <<32767, 7233, 0>>
    /\ frame.phase = "read" =>
         /\ ~frame.read.short
         /\ frame.read.buf = MessageData(16, FrameFields(frame.n)).bytes
         /\ frame.read.rest = <<>>
         /\ frame.read.err = ""
         /\ frame.read.tag = 16
         /\ frame.read.fields = FrameFields(frame.n)

\* a payload of 40000 bytes, in three chunks, was written and read back
C3_Witness ==
    /\ frame.phase = "read"
    /\ Len(frame.read.buf) = 40000
    /\ Len(ChunkLens(frame.written.bytes, 1)) = 3

(***************************************************************************)
(* Claims about the session (Spec).                                        *)
(***************************************************************************)
\* every request written so far, sent or still buffered: what follows the 20
\* bytes of the handshake
Written == RequestTags(sent \o wire.output, Len(Preamble) + Len(Versions) + 1)

GoodbyeCount == Cardinality({i \in 1..Len(Written) : Written[i] = 2})

\* the step of _fetch that takes a whole message from the stream
Reads == Waiting /\ Len(inbound') < Len(inbound)

\* C1: responses become terminal in the order their requests were written:
\* whenever a response is terminal, the response of every request written
\* before it is terminal too.
C1_TerminalInOrder ==
    \A i, j \in 1..Len(heap) : i < j /\ heap[j].status # 0 => heap[i].status # 0

\* hello, run and pull were written, the first two were answered, the third
\* is pending
C1_Witness ==
    /\ Len(heap) = 3
    /\ Len(results) = 1
    /\ results[1].items = <<2, 3>>
    /\ heap[2].status # 0
    /\ heap[3].status = 0

\* C4: when _fetch reads a FAILURE (0x7F) or an IGNORED (0x7E) message, the
\* response at the head of the queue becomes terminal, the metadata of a
\* FAILURE is stored in it, and it leaves the queue.
C4_FailureIgnoredTerminal ==
    [][(Reads /\ responses # <<>> /\ ReadMessage(inbound).tag \in {126, 127}) =>
          /\ heap'[responses[1]].status # 0
          /\ responses' = Tail(responses)
          /\ ReadMessage(inbound).tag = 127 =>
                 heap'[responses[1]].metadata = ReadMessage(inbound).fields[1].v]_vars

\* C5: sync(result) hands every buffered byte to the socket before it reads:
\* nothing is buffered while it waits, the step that starts the wait appends
\* the buffer to what was sent and reads nothing, and a sync that fails to
\* send reads nothing; when it returns, the last response of the result is
\* terminal; while that response is terminal, nothing is read.
C5_SyncSteps ==
    /\ (pc = "idle" /\ pc' = "sync") =>
           /\ sent' = sent \o wire.output
           /\ wire'.output = <<>>
           /\ inbound' = inbound
           /\ heap' = heap
    /\ (pc = "idle" /\ outcome'.op = "sync" /\ outcome' # outcome) =>
           inbound' = inbound /\ heap' = heap
    /\ (pc = "sync" /\ pc' = "idle" /\ outcome'.err = "") =>
           /\ outcome'.op = "sync"
           /\ heap'[Last(results[outcome'.result])].status # 0
    /\ (pc = "sync" /\ heap[target].status # 0) =>
           /\ Len(inbound') >= Len(inbound)
           /\ heap' = heap

C5_Sync == [](pc = "sync" => wire.output = <<>>) /\ [][C5_SyncSteps]_vars

\* a sync returned after it sent the hello and a run request, and a message
\* of the server is left unread
C5_Witness ==
    /\ pc = "idle"
    /\ outcome.op = "sync"
    /\ outcome.err = ""
    /\ Len(Written) >= 2
    /\ wire.output = <<>>
    /\ inbound # <<>>

\* C6: take(result) on a working session never raises: it returns the next
\* record of the result when one is buffered, and nothing when no record
\* remains and the result is complete.
C6_TakeStep ==
    /\ pc = "idle"
    /\ ~wire.closed /\ ~wire.broken
    /\ outcome'.op = "take"
    /\ <<outcome, heap>>' # <<outcome, heap>>

C6_TakeReturns ==
    [][C6_TakeStep =>
          /\ outcome'.err = ""
          /\ HasRecords(heap, results[outcome'.result]) =>
                 outcome'.ret = TakeRecord(heap, results[outcome'.result]).ret
          /\ (/\ ~HasRecords(heap, results[outcome'.result])
              /\ results[outcome'.result].complete
              /\ Done(heap, Last(results[outcome'.result]))) =>
                 outcome'.ret = <<>> /\ heap' = heap]_vars

\* C7: a RECORD is appended to the response of the oldest request still
\* pending and to no other; a record leaves a response only as the value
\* take or take_record returns on the result that holds the response, and it
\* is the first record of the first response of that result that has one.
\* No response is in two results, a response that holds records is later
\* than none that is pending, and records are buffered in arrival order.
RecordNo(record) == SmallOf(record.v[1].v)

C7_Appended(i) ==
    /\ Reads
    /\ ReadMessage(inbound).tag = 113
    /\ heap'[i].records = Append(heap[i].records, ReadMessage(inbound).fields[1])
    /\ heap[i].status = 0
    /\ \A k \in 1..(i - 1) : heap[k].status # 0

C7_Taken(i) ==
    /\ outcome'.op \in {"take", "take_record"}
    /\ outcome'.err = ""
    /\ outcome'.ret = <<Head(heap[i].records)>>
    /\ heap'[i].records = Tail(heap[i].records)
    /\ \E n \in 1..Len(results[outcome'.result].items) :
         /\ results[outcome'.result].items[n] = i
         /\ \A m \in 1..(n - 1) :
              heap[results[outcome'.result].items[m]].records = <<>>

C7_RecordSteps ==
    /\ \A i \in 1..Len(heap) :
         heap'[i].records # heap[i].records =>
             /\ C7_Appended(i) \/ C7_Taken(i)
             /\ \A k \in 1..Len(heap) : k # i => heap'[k].records = heap[k].records
    /\ (Reads /\ responses # <<>> /\ ReadMessage(inbound).tag = 113) =>
           \E i \in 1..Len(heap) : heap'[i].records # heap[i].records

C7_Buffered ==
    /\ \A r1, r2 \in 1..Len(results) :
         r1 # r2 => \A m \in 1..Len(results[r1].items), n \in 1..Len(results[r2].items) :
                       results[r1].items[m] # results[r2].items[n]
    /\ \A i, j \in 1..Len(heap) : i < j /\ heap[j].records # <<>> => heap[i].status # 0
    /\ \A i, j \in 1..Len(heap) :
         \A a \in 1..Len(heap[i].records), b \in 1..Len(heap[j].records) :
            (i < j \/ (i = j /\ a < b)) =>
                RecordNo(heap[i].records[a]) < RecordNo(heap[j].records[b])

C7_Pipelining == []C7_Buffered /\ [][C7_RecordSteps]_vars

\* two results: take_record on the second returned a record while a record of
\* the first is still buffered
C7_Witness ==
    /\ Len(results) >= 2
    /\ outcome.op = "take_record"
    /\ outcome.result = 2
    /\ outcome.ret # <<>>
    /\ HasRecords(heap, results[1])

\* C8: at most one GOODBYE is ever written, and a close() on a session that
\* is closed or broken writes nothing, sends nothing and leaves the wire as
\* it is.
C8_CloseStep ==
    /\ pc = "idle"
    /\ pc' = "idle"
    /\ outcome'.op = "close"
    /\ <<outcome, wire, sent, heap, responses>>' # <<outcome, wire, sent, heap, responses>>

C8_CloseOnce ==
    /\ [](GoodbyeCount <= 1)
    /\ [][(C8_CloseStep /\ (wire.closed \/ wire.broken)) =>
             /\ outcome'.err = ""
             /\ UNCHANGED <<wire, sent, heap, responses>>]_vars

\* a close() that wrote GOODBYE and failed to send it, then a close() on the
\* session it left broken, which returned
C8_Witness ==
    /\ outcome.op = "close"
    /\ outcome.err = ""
    /\ wire.broken
    /\ ~wire.closed
    /\ GoodbyeCount = 1

\* C9: the step of close() that writes GOODBYE leaves the queue of pending
\* responses as it is and makes no response.
C9_GoodbyeNotEnqueued ==
    [][(C8_CloseStep /\ GoodbyeCount' > GoodbyeCount) =>
          responses' = responses /\ heap' = heap]_vars

\* C10: on a broken session every run, pull, sync and take raises, writes
\* nothing to the wire and makes and enqueues no response.
C10_CallStep ==
    /\ pc = "idle"
    /\ \/ pc' = "sync"
       \/ /\ outcome'.op \in {"run", "pull", "sync", "take"}
          /\ <<clientVars, wire, sent>>' # <<clientVars, wire, sent>>

C10_BrokenAbsorbing ==
    [][(C10_CallStep /\ wire.broken) =>
          /\ pc' = "idle"
          /\ outcome'.err # ""
          /\ wire'.output = wire.output
          /\ sent' = sent
          /\ responses' = responses
          /\ heap' = heap]_vars

\* C11: when the 4 bytes the server answers the handshake with do not say
\* version 4.0, open() raises, no HELLO has been written, and the socket is
\* closed when the exception leaves open().
C11_VersionMismatch ==
    [][(/\ pc = "handshake"
        /\ Len(inbound) >= 4
        /\ <<inbound[4], inbound[3]>> # <<4, 0>>
        /\ pc' # pc) =>
          /\ pc' = "failed"
          /\ outcome'.op = "open"
          /\ outcome'.err # ""
          /\ Written' = <<>>
          /\ wire'.closed]_vars

\* C12: when _fetch reads a message whose tag is none of 0x70, 0x71, 0x7F and
\* 0x7E, the wait it is part of ends with an exception.
C12_UnknownTagFails ==
    [][(/\ Reads
        /\ responses # <<>>
        /\ ReadMessage(inbound).err = ""
        /\ ReadMessage(inbound).tag \notin {112, 113, 126, 127}) =>
          /\ pc' \in {"idle", "failed"}
          /\ outcome'.err # ""]_vars

(***************************************************************************)
(* More claims about the codec (CodecSpec).                                *)
(***************************************************************************)
\* what fits a header of w bytes of size after the marker (0: in the marker)
\* and an integer of w bytes after the marker (0: the marker is the integer)
SizeFits(x, w) ==
    /\ IntLE(IntOf(0), x)
    /\ CASE w = 0 -> IntLT(x, IntOf(16))
         [] w = 1 -> IntLT(x, IntOf(256))
         [] w = 2 -> IntLT(x, IntOf(65536))
         [] OTHER -> IntLT(x, Pow32)

IntFits(x, w) ==
    CASE w = 0 -> IntLE(IntOf(-16), x) /\ IntLT(x, IntOf(128))
      [] w = 1 -> IntLE(IntOf(-128), x) /\ IntLT(x, IntOf(128))
      [] w = 2 -> IntLE(IntOf(-32768), x) /\ IntLT(x, IntOf(32768))
      [] w = 4 -> IntLE(NegPow31, x) /\ IntLT(x, Pow31)
      [] OTHER -> IntLE(NegPow63, x) /\ IntLT(x, Pow63)

SizeWidths == {0, 1, 2, 4}
IntWidths == {0, 1, 2, 4, 8}

SmallestSize(x) ==
    CHOOSE w \in SizeWidths :
        SizeFits(x, w) /\ \A u \in SizeWidths : u < w => ~SizeFits(x, u)

SmallestInt(x) ==
    CHOOSE w \in IntWidths :
        IntFits(x, w) /\ \A u \in IntWidths : u < w => ~IntFits(x, u)

\* bs opens with the header of size x in w bytes, with the markers m
HeaderIs(bs, x, m, w) ==
    /\ Len(bs) >= 1 + w
    /\ CASE w = 0 -> bs[1] = m[1] + SmallOf(x)
         [] w = 1 -> bs[1] = m[2] /\ bs[2] = SmallOf(x)
         [] w = 2 -> bs[1] = m[3] /\ RdU16(SubSeq(bs, 2, 3)) = SmallOf(x)
         [] OTHER -> bs[1] = m[4] /\ <<0, bs[2], RdU24(SubSeq(bs, 3, 5))>> = x

\* bs is the integer x in w bytes after the marker
IntIs(bs, x, w) ==
    /\ Len(bs) = IF w = 0 THEN 1 ELSE 1 + w
    /\ CASE w = 0 -> RdI8(bs) = x
         [] w = 1 -> bs[1] = 200 /\ RdI8(Tail(bs)) = x
         [] w = 2 -> bs[1] = 201 /\ RdI16(Tail(bs)) = x
         [] w = 4 -> bs[1] = 202 /\ RdI32(Tail(bs)) = x
         [] OTHER -> bs[1] = 203 /\ RdI64(Tail(bs)) = x

C13_Header ==
    IF \E w \in SizeWidths : SizeFits(codec.value.v, w)
    THEN /\ codec.packed.err = ""
         /\ Len(codec.packed.bytes) = 1 + SmallestSize(codec.value.v)
         /\ HeaderIs(codec.packed.bytes, codec.value.v, codec.markers,
                     SmallestSize(codec.value.v))
    ELSE codec.packed.err # ""

C13_Int ==
    IF \E w \in IntWidths : IntFits(codec.value.v, w)
    THEN /\ codec.packed.err = ""
         /\ IntIs(codec.packed.bytes, codec.value.v, SmallestInt(codec.value.v))
    ELSE codec.packed.err # ""

C13_Sized(encoded, m) ==
    /\ codec.packed.err = ""
    /\ HeaderIs(codec.packed.bytes, IntOf(encoded), m, SmallestSize(IntOf(encoded)))

\* C13: an integer of 64 bits is packed in the smallest of the five widths
\* that holds it, and one outside 64 bits raises; the size of a str (in
\* UTF-8 bytes), of a list and of a dict is packed in the smallest of the
\* four headers that holds it, and a size of 2^32 or more raises.
C13_MinimalWidth ==
    /\ codec.phase = "header" => C13_Header
    /\ (codec.phase = "packed" /\ codec.value.t = "int") => C13_Int
    /\ (codec.phase = "packed" /\ codec.value.t = "str" /\ Supported(codec.value)) =>
           /\ C13_Sized(Len(Utf8Encode(codec.value.v).bytes), <<128, 208, 209, 210>>)
           /\ Len(codec.packed.bytes) =
                  1 + SmallestSize(IntOf(Len(Utf8Encode(codec.value.v).bytes)))
                  + Len(Utf8Encode(codec.value.v).bytes)
    /\ (codec.phase = "packed" /\ codec.value.t = "list" /\ Supported(codec.value)) =>
           C13_Sized(Len(codec.value.v), <<144, 212, 213, 214>>)
    /\ (codec.phase = "packed" /\ codec.value.t = "dict" /\ Supported(codec.value)) =>
           C13_Sized(Len(codec.value.v), <<160, 216, 217, 218>>)

\* the header of a size of 2^32 - 1 was packed, in 5 bytes
C13_Witness ==
    /\ codec.phase = "header"
    /\ codec.value.v = <<0, 255, Limb - 1>>
    /\ Len(codec.packed.bytes) = 5

\* C14: unpacking bytes that end before the value they open is whole raises.
C14_TruncatedFails == codec.phase = "truncated" => codec.out.err # ""

\* a value that is, or holds, a bool, a float or a bytes object, or a dict
\* with a key that is no str
RECURSIVE OutsideDomain(_)
OutsideDomain(v) ==
    CASE v.t \in {"bool", "float", "bytes"} -> TRUE
      [] v.t = "list" -> \E i \in 1..Len(v.v) : OutsideDomain(v.v[i])
      [] v.t = "dict" -> \E i \in 1..Len(v.v) :
                            v.v[i][1].t # "str" \/ OutsideDomain(v.v[i][2])
      [] OTHER -> FALSE

\* C16: packing a bool, a float, a bytes object, a value that holds one, or
\* a dict with a key that is no str raises and leaves no byte in the buffer.
C16_UnsupportedFails ==
    (codec.phase = "packed" /\ OutsideDomain(codec.value)) =>
        codec.packed.err # "" /\ codec.packed.bytes = <<>>

(***************************************************************************)
(* More claims about the message layer (FrameSpec).                        *)
(***************************************************************************)
\* the position after n values unpacked from pos, 0 if one of them raises
RECURSIVE EndOfFields(_, _, _)
EndAfter(buf, n, one) ==
    IF one.err # "" THEN 0 ELSE EndOfFields(buf, one.pos, n - 1)

EndOfFields(buf, pos, n) ==
    IF n = 0 THEN pos ELSE EndAfter(buf, n, Unpack(buf, pos))

\* a structure header 0xB0 + n, a tag, and exactly n packed values
WellFormed(buf) ==
    /\ Len(buf) >= 2
    /\ 176 <= buf[1] /\ buf[1] <= 191
    /\ EndOfFields(buf, 3, buf[1] - 176) = Len(buf) + 1

\* C15: read_message gives a tag and fields for a payload made of a structure
\* header 0xB0 + n, a tag and exactly n packed values, and raises for any
\* other payload.
C15_MalformedFails ==
    frame.phase = "rawread" =>
        /\ ~frame.read.short
        /\ IF WellFormed(frame.read.buf) THEN frame.read.err = ""
           ELSE frame.read.err # ""

(***************************************************************************)
(* More claims about the session (Spec).                                   *)
(***************************************************************************)
\* C17: the queue of pending responses is, in the order they were written,
\* the responses of the written requests that are not terminal; so a
\* response leaves the queue in the step that makes it terminal, no terminal
\* response is in the queue and no pending one is outside it.
C17_QueueIsPending ==
    responses = SelectSeq([i \in 1..Len(heap) |-> i], LAMBDA i : heap[i].status = 0)

\* hello was answered, and two requests written after it are pending
C17_Witness ==
    /\ Len(heap) = 3
    /\ heap[1].status # 0
    /\ responses = <<2, 3>>

\* C18: a _fetch that reads takes exactly one message off the stream and
\* changes no response but the head of the queue; a SUCCESS stores its
\* metadata on the head, marks it terminal and takes it off the queue; a
\* RECORD is appended to the records of the head and leaves the queue, the
\* status and the metadata of the head as they are.
C18_FetchStep ==
    (Reads /\ responses # <<>>) =>
        /\ Len(RequestTags(inbound', 1)) = Len(RequestTags(inbound, 1)) - 1
        /\ inbound' = SubSeq(inbound, Len(inbound) - Len(inbound') + 1, Len(inbound))
        /\ Len(heap') = Len(heap)
        /\ \A k \in 1..Len(heap) : k # responses[1] => heap'[k] = heap[k]
        /\ ReadMessage(inbound).tag = 112 =>
               /\ heap'[responses[1]] =
                      [heap[responses[1]] EXCEPT
                           !.status = 1, !.metadata = ReadMessage(inbound).fields[1].v]
               /\ responses' = Tail(responses)
        /\ ReadMessage(inbound).tag = 113 =>
               /\ heap'[responses[1]] =
                      [heap[responses[1]] EXCEPT
                           !.records = Append(@, ReadMessage(inbound).fields[1])]
               /\ responses' = responses

C18_Fetch == [][C18_FetchStep]_vars

\* in a sync, a RECORD was read into the head of the queue while another
\* message of the server waits unread
C18_Witness ==
    /\ pc = "sync"
    /\ responses # <<>>
    /\ heap[responses[1]].records # <<>>
    /\ Len(RequestTags(inbound, 1)) >= 1


\* the exceptions of the packer
PackErrors == {"ValueError", "OverflowError", "UnicodeEncodeError", "AttributeError"}

\* hello, run or pull has raised out of write_message
C20_Refused ==
    /\ pc \in {"handshake", "idle"}
    /\ pc' \in {"failed", "idle"}
    /\ outcome'.op \in {"open", "run", "pull"}
    /\ outcome'.err \in PackErrors

\* C20: a hello, run or pull whose fields the packer refuses writes no byte,
\* buffered or sent, makes no response and no result, and leaves the queue as
\* it is; so every response is the response of one message on the wire.
C20_Unencodable ==
    /\ [](Len(Written) = Len(heap))
    /\ [][C20_Refused =>
             /\ wire' = wire /\ sent' = sent
             /\ heap' = heap /\ responses' = responses /\ results' = results]_vars

\* a run with a parameter the packer refuses has raised while an earlier
\* request is still buffered
C20_Witness ==
    /\ outcome.op = "run"
    /\ outcome.err = "ValueError"
    /\ Len(heap) >= 2
    /\ wire.output # <<>>


(***************************************************************************)
(* Claims about _wait (LiveSpec).                                          *)
(***************************************************************************)
C19_WaitStep ==
    /\ (Waiting /\ heap[target].status = 0) =>
           \A j \in (target + 1)..Len(heap') : heap'[j] = BoltResponse
    /\ (Waiting /\ heap[target].status # 0) =>
           /\ heap' = heap
           /\ responses' = responses
           /\ Len(inbound') >= Len(inbound)
    /\ (Waiting /\ pc' = "idle" /\ outcome'.err = "") =>
           \A i \in 1..target : heap'[i].status # 0

\* C19: while _wait(response) runs and the response is pending, no response
\* written after it receives anything, the step that makes it terminal
\* included; once it is terminal _wait reads no byte and changes no response;
\* when _wait returns, the response and every response written before it are
\* terminal.  Against a server that answers every request it has received
\* with RECORDs and a SUCCESS, every _wait ends.
C19_Wait ==
    /\ [][C19_WaitStep]_vars
    /\ (Waiting ~> ~Waiting)

\* a sync has returned with a later request still pending, untouched, and a
\* message for it waiting unread
C19_Witness ==
    /\ pc = "idle"
    /\ outcome.op = "sync"
    /\ outcome.err = ""
    /\ responses # <<>>
    /\ heap[responses[1]] = BoltResponse
    /\ Len(RequestTags(inbound, 1)) >= 1
    /\ \A i \in 1..(responses[1] - 1) : heap[i].status # 0

=============================================================================
